---- MODULE Spec2Model ----
(***************************************************************************)
(* Model of simulate_export.py: the half-domain problem builder, the       *)
(* mirror operator and the Jacobi solver loop with its periodic reports,   *)
(* periodic snapshots and final export.                                    *)
(*                                                                         *)
(* Numbers.  Python computes in float64.  The model computes in exact      *)
(* fixed point and only admits inputs on which every float64 operation of  *)
(* the program is exact, so both agree value for value:                    *)
(*   - a temperature t is stored as the integer t * Scale, Scale a power   *)
(*     of 4 large enough that MaxIters multiplications by 0.25 stay exact; *)
(*   - a length is stored as a whole number of quarters (L = 4 is 1.0,     *)
(*     L_inner = 12 is 3.0, bath_height = 2 is 0.5);                       *)
(*   - a grid is a function [0..Ny-1 -> [0..Nx-1 -> value]], indexed as    *)
(*     the numpy array T[j, i].                                            *)
(***************************************************************************)
EXTENDS Integers, Sequences, FiniteSets, TLC

\* Largest max_iters tried; no run sweeps more than max(1, MaxIters) times.
MaxIters == 3

\* The :.6f of the progress line prints millionths.
Million == 1000000

\* Default bath_fraction = 4.0/9.0.
BathFracNum == 4
BathFracDen == 9

RECURSIVE Pow4(_)
Pow4(k) == IF k = 0 THEN 1 ELSE 4 * Pow4(k - 1)

Scale == Pow4(MaxIters + 1)

Abs(x) == IF x < 0 THEN -x ELSE x
Min2(a, b) == IF a < b THEN a ELSE b
Max2(a, b) == IF a > b THEN a ELSE b

\* Python's round() on the exact quotient num/den (den > 0): nearest integer,
\* ties to the even one.
RoundHalfEven(num, den) ==
    LET q == num \div den
        r == num % den
    IN  IF 2 * r < den THEN q
        ELSE IF 2 * r > den THEN q + 1
        ELSE IF q % 2 = 0 THEN q ELSE q + 1

\* The indices a Python slice start:stop selects in an axis of length n.
SliceNorm(x, n) == IF x < 0 THEN Max2(x + n, 0) ELSE Min2(x, n)
SliceRange(start, stop, n) ==
    {k \in 0..(n - 1) : SliceNorm(start, n) <= k /\ k < SliceNorm(stop, n)}

(***************************************************************************)
(* build_problem_half                                                      *)
(***************************************************************************)
NyOf(a) == a.N
Nx_half(a) == (a.N \div 2) + 1
h_y(a) == a.L \div (NyOf(a) - 1)
h_x(a) == IF Nx_half(a) > 1 THEN a.L \div (2 * (Nx_half(a) - 1)) ELSE 0

\* y = np.linspace(0.0, L, Ny), row j.
yRow(a, j) == (j * a.L) \div (NyOf(a) - 1)

\* y0 in units of 1/BathFracDen quarter: bath_height, or bath_fraction * L
\* when bath_height is None (the empty tuple), clipped to [0, L].
y0(a) ==
    LET raw == IF a.bath_height = <<>> THEN BathFracNum * a.L
               ELSE BathFracDen * a.bath_height[1]
    IN  Max2(0, Min2(raw, BathFracDen * a.L))

side_profile(a, j) ==
    LET y == BathFracDen * yRow(a, j)
    IN  IF y <= y0(a) THEN a.T_bottom * Scale
        ELSE a.T_bottom * Scale
             + ((a.T_top - a.T_bottom) * Scale * (y - y0(a)))
                  \div (BathFracDen * a.L - y0(a))

j_low(a)   == RoundHalfEven(a.L - a.L_inner, 2 * h_y(a))
j_high(a)  == RoundHalfEven(a.L + a.L_inner, 2 * h_y(a))
i_right(a) == RoundHalfEven(a.L_inner, 2 * h_x(a))

InnerRows(a) == SliceRange(j_low(a), j_high(a) + 1, NyOf(a))
InnerCols(a) == SliceRange(0, i_right(a) + 1, Nx_half(a))

build_problem_half(a) ==
    LET Ny == NyOf(a)
        Nx == Nx_half(a)
        inner(j, i) == j \in InnerRows(a) /\ i \in InnerCols(a)
    IN  [T |-> [j \in 0..(Ny - 1) |-> [i \in 0..(Nx - 1) |->
                 IF inner(j, i) THEN a.T_inner * Scale
                 ELSE IF i = Nx - 1 THEN side_profile(a, j)
                 ELSE IF j = Ny - 1 THEN a.T_top * Scale
                 ELSE IF j = 0 THEN a.T_bottom * Scale
                 ELSE a.init_guess * Scale]],
         fixed |-> [j \in 0..(Ny - 1) |-> [i \in 0..(Nx - 1) |->
                 inner(j, i) \/ i = Nx - 1 \/ j = Ny - 1 \/ j = 0]],
         h_y |-> h_y(a), h_x |-> h_x(a), L |-> a.L]

\* The inputs on which the builder's float64 arithmetic is exact: both
\* spacings are whole numbers of quarters, and the wall profile either has
\* T_top = T_bottom or interpolates with dyadic fractions only.
InputsExact(a) ==
    /\ a.L % (NyOf(a) - 1) = 0
    /\ a.L % (2 * (Nx_half(a) - 1)) = 0
    /\ \/ a.T_top = a.T_bottom
       \/ \A j \in 0..(NyOf(a) - 1) :
            LET y == BathFracDen * yRow(a, j)
            IN  y > y0(a) =>
                  (Scale * (y - y0(a))) % (BathFracDen * a.L - y0(a)) = 0

(***************************************************************************)
(* mirror_full_from_half                                                   *)
(***************************************************************************)
RowLen(row) == Cardinality(DOMAIN row)

\* row[1:]
DropFirst(row) == [k \in 0..(RowLen(row) - 2) |-> row[k + 1]]
\* Mutant of Reversed: the left half is not flipped.
ReversedKeepsOrder(row) == row

\* row[::-1]
Reversed(row) == [k \in 0..(RowLen(row) - 1) |-> row[RowLen(row) - 1 - k]]
\* np.hstack([a, b]) on one row
HStack(a, b) ==
    [k \in 0..(RowLen(a) + RowLen(b) - 1) |->
        IF k < RowLen(a) THEN a[k] ELSE b[k - RowLen(a)]]

mirror_full_from_half(T_half) ==
    [j \in DOMAIN T_half |->
        LET left == Reversed(DropFirst(T_half[j]))
        IN  HStack(left, T_half[j])]

(***************************************************************************)
(* jacobi_laplace_half_with_snapshots: the pieces of one sweep             *)
(***************************************************************************)
NyG(G) == Cardinality(DOMAIN G)
NxG(G) == RowLen(G[0])

\* var = ~fixed, then False on column 0, row 0, row -1 and column -1.
VarMask(fx) ==
    LET Ny == NyG(fx)
        Nx == NxG(fx)
    IN  [j \in 0..(Ny - 1) |-> [i \in 0..(Nx - 1) |->
            /\ ~fx[j][i]
            /\ i # 0 /\ j # 0 /\ j # Ny - 1 /\ i # Nx - 1]]

\* 0.25 * x, exact on the values a run meets.
Quarter(x) == x \div 4

\* Mutant of Avg: the left neighbour is left out of the sum.
AvgThreeNeighbours(G) ==
    [a \in 0..(NyG(G) - 3) |-> [b \in 0..(NxG(G) - 3) |->
        Quarter(G[a][b + 1] + G[a + 2][b + 1] + G[a + 1][b + 2])]]

\* Mutant of Avg: the averages read a grid whose centreline was already
\* overwritten by this sweep's symmetry copy.
AvgAfterCopy(G) ==
    [a \in 0..(NyG(G) - 3) |-> [b \in 0..(NxG(G) - 3) |->
        Quarter(G[a][b + 1] + G[a + 2][b + 1]
                + (IF b = 0 THEN G[a + 1][1] ELSE G[a + 1][b])
                + G[a + 1][b + 2])]]

\* avg = 0.25 * (T[:-2, 1:-1] + T[2:, 1:-1] + T[1:-1, :-2] + T[1:-1, 2:]),
\* indexed like the interior block: avg[a][b] belongs to cell (a+1, b+1).
Avg(G) ==
    [a \in 0..(NyG(G) - 3) |-> [b \in 0..(NxG(G) - 3) |->
        Quarter(G[a][b + 1] + G[a + 2][b + 1] + G[a + 1][b] + G[a + 1][b + 2])]]

\* T_new[interior][mask] = avg[mask]
MaskedWrite(Tn, avg, vm) ==
    [j \in DOMAIN Tn |-> [i \in DOMAIN Tn[j] |->
        IF /\ 1 <= j /\ j <= NyG(Tn) - 2
           /\ 1 <= i /\ i <= NxG(Tn) - 2
           /\ vm[j][i]
        THEN avg[j - 1][i - 1] ELSE Tn[j][i]]]

\* T_new[:, 0] = T_new[:, 1]
SymCopy(Tn) ==
    [j \in DOMAIN Tn |-> [i \in DOMAIN Tn[j] |->
        IF i = 0 THEN Tn[j][1] ELSE Tn[j][i]]]

\* Mutant of KeepFixed: the fixed cells are not re-asserted.
KeepFixedSkipped(Tn, G, fx) == Tn

\* T_new[fixed] = T[fixed]
KeepFixed(Tn, G, fx) ==
    [j \in DOMAIN Tn |-> [i \in DOMAIN Tn[j] |->
        IF fx[j][i] THEN G[j][i] ELSE Tn[j][i]]]

\* Mutant of SweepGrid: the symmetry copy runs before the masked write.
SweepGridCopyFirst(G, fx, vm) ==
    KeepFixed(MaskedWrite(SymCopy(G), Avg(G), vm), G, fx)

\* T_new after the three writes, in the order of the source.
SweepGrid(G, fx, vm) == KeepFixed(SymCopy(MaskedWrite(G, Avg(G), vm)), G, fx)

SetMax(S) == CHOOSE m \in S : \A x \in S : x <= m

\* Mutant of MaxChange: the absolute value is dropped.
MaxChangeSigned(Tn, G, vm) ==
    LET cells == {c \in (DOMAIN G) \X (DOMAIN G[0]) : vm[c[1]][c[2]]}
    IN  IF cells # {}
        THEN SetMax({Tn[c[1]][c[2]] - G[c[1]][c[2]] : c \in cells})
        ELSE 0

\* max_change = np.max(np.abs(T_new - T)[var]) if np.any(var) else 0.0
MaxChange(Tn, G, vm) ==
    LET cells == {c \in (DOMAIN G) \X (DOMAIN G[0]) : vm[c[1]][c[2]]}
    IN  IF cells # {}
        THEN SetMax({Abs(Tn[c[1]][c[2]] - G[c[1]][c[2]]) : c \in cells})
        ELSE 0

\* Mutant of SnapDue: the cadence is tested against the next epoch.
SnapDueEarly(e, every) == (e + 1) % every = 0
\* Mutant of Terminal: the cap is tested with > instead of >=.
TerminalCapLate(mc, d, e, mi) == mc < d \/ e > mi

ReportDue(e, every) == e % every = 0

\* f"{max_change:.6f}": the printed number, as a count of millionths.  The
\* float holds max_change exactly, so the text is the nearest multiple of
\* 1e-6, a tie going to the even last digit.
FormatSixDecimals(mc) ==
    (mc \div Scale) * Million + RoundHalfEven((mc % Scale) * Million, Scale)
SnapDue(e, every)   == e % every = 0
Terminal(mc, d, e, mi) == mc < d \/ e >= mi

(***************************************************************************)
(* The program: build the problem, then run the solver loop.               *)
(***************************************************************************)
VARIABLES
    args,        \* the arguments of build_problem_half
    cfg,         \* delta, max_iters, report_every, snap_every
    T0,          \* the Grid passed to the solver (the builder's T)
    fixed,       \* FixedMask
    var,         \* VariableMask
    T,           \* the solver's current Grid
    epochs,
    max_change,  \* of the last sweep; -1 while no sweep has run
    reports,     \* the lines printed, in order: <<epoch, max_change as
                 \* printed, in millionths>>
    exports,     \* the CSV files written: tag and full grid, in order
    ret,         \* <<>> until the solver returns (T, epochs, max_change)
    pc           \* where the loop body stands

vars == <<args, cfg, T0, fixed, var, T, epochs, max_change, reports, exports,
          ret, pc>>

NSet       == {2, 3, 5}
LSet       == {4, 8}
LInnerSet  == {0, 2, 12}
TTopSet    == {50, 100}
TBottomSet == {0, 50}
TInnerSet  == {50, 212}
GuessSet   == {50, 90}
BathSet    == {<<>>, <<-4>>, <<0>>, <<2>>, <<8>>}

ArgSet ==
    {a \in [N : NSet, L : LSet, L_inner : LInnerSet, T_top : TTopSet,
            T_bottom : TBottomSet, T_inner : TInnerSet, init_guess : GuessSet,
            bath_height : BathSet] : InputsExact(a)}

DeltaSet == {0, 1, 30 * Scale}
CfgSet ==
    [delta : DeltaSet, max_iters : 0..MaxIters,
     report_every : {1, 2}, snap_every : {1, 2}]

Init ==
    /\ args \in ArgSet
    /\ cfg \in CfgSet
    /\ T0 = build_problem_half(args).T
    /\ fixed = build_problem_half(args).fixed
    /\ var = VarMask(fixed)
    /\ T = T0
    /\ epochs = 0
    /\ max_change = -1
    /\ reports = <<>>
    /\ exports = <<>>
    /\ ret = <<>>
    /\ pc = "sweep"

\* Lines 112-129: one Jacobi sweep.
Sweep ==
    /\ pc = "sweep"
    /\ LET T_new == SweepGrid(T, fixed, var)
       IN  /\ max_change' = MaxChange(T_new, T, var)
           /\ T' = T_new
    /\ epochs' = epochs + 1
    /\ pc' = "report"
    /\ UNCHANGED <<args, cfg, T0, fixed, var, reports, exports, ret>>

\* Lines 131-132.
Report ==
    /\ pc = "report"
    /\ reports' = IF ReportDue(epochs, cfg.report_every)
                  THEN Append(reports,
                              <<epochs, FormatSixDecimals(max_change)>>)
                  ELSE reports
    /\ pc' = "snap"
    /\ UNCHANGED <<args, cfg, T0, fixed, var, T, epochs, max_change, exports, ret>>

\* Lines 134-136.
Snapshot ==
    /\ pc = "snap"
    /\ exports' = IF SnapDue(epochs, cfg.snap_every)
                  THEN Append(exports, [kind |-> "epoch", epoch |-> epochs,
                                        grid |-> mirror_full_from_half(T)])
                  ELSE exports
    /\ pc' = "check"
    /\ UNCHANGED <<args, cfg, T0, fixed, var, T, epochs, max_change, reports, ret>>

\* Mutant of Finish: no final export when this epoch was just snapshotted.
FinishElif ==
    /\ pc = "check"
    /\ max_change < cfg.delta \/ epochs >= cfg.max_iters
    /\ exports' = IF epochs % cfg.snap_every = 0 THEN exports
                  ELSE Append(exports, [kind |-> "final", epoch |-> epochs,
                                        grid |-> mirror_full_from_half(T)])
    /\ ret' = <<T, epochs, max_change>>
    /\ pc' = "done"
    /\ UNCHANGED <<args, cfg, T0, fixed, var, T, epochs, max_change, reports>>

\* Lines 138-141: the final export and the return.
Finish ==
    /\ pc = "check"
    /\ Terminal(max_change, cfg.delta, epochs, cfg.max_iters)
    /\ exports' = Append(exports, [kind |-> "final", epoch |-> epochs,
                                   grid |-> mirror_full_from_half(T)])
    /\ ret' = <<T, epochs, max_change>>
    /\ pc' = "done"
    /\ UNCHANGED <<args, cfg, T0, fixed, var, T, epochs, max_change, reports>>

\* Line 138 false: back to the top of the while loop.
Continue ==
    /\ pc = "check"
    /\ ~Terminal(max_change, cfg.delta, epochs, cfg.max_iters)
    /\ pc' = "sweep"
    /\ UNCHANGED <<args, cfg, T0, fixed, var, T, epochs, max_change, reports,
                   exports, ret>>

Next == Sweep \/ Report \/ Snapshot \/ Finish \/ Continue

Spec == Init /\ [][Next]_vars

\* The loop is sequential code: a step that can be taken is taken.
FairSpec == Spec /\ WF_vars(Next)

(***************************************************************************)
(* Vocabulary of the properties.  These read the state directly and do not *)
(* go through the operators above, except GridAfter, which replays sweeps. *)
(***************************************************************************)
Rows == DOMAIN T0
Cols == DOMAIN T0[0]
Ny0  == Cardinality(Rows)
Nx0  == Cardinality(Cols)
Cells == Rows \X Cols

Returned == ret # <<>>
AnyVar == \E c \in Cells : var[c[1]][c[2]]

\* full is G laid out symmetrically about column Nx0 - 1.
IsMirrorOf(full, G) ==
    /\ DOMAIN full = Rows
    /\ \A j \in Rows :
         /\ DOMAIN full[j] = 0..(2 * Nx0 - 2)
         /\ \A i \in 0..(2 * Nx0 - 2) : full[j][i] = G[j][Abs(i - (Nx0 - 1))]

\* The grid after n sweeps of this run.
RECURSIVE GridAfter(_)
GridAfter(n) == IF n = 0 THEN T0 ELSE SweepGrid(GridAfter(n - 1), fixed, var)

Periodic == SelectSeq(exports, LAMBDA x : x.kind = "epoch")
Finals   == SelectSeq(exports, LAMBDA x : x.kind = "final")

\* C1: at every epoch, and in the returned Grid, every FixedMask cell holds
\* the value it had in the Grid passed to the solver.
C1_FixedCellsKept ==
    /\ \A c \in Cells : fixed[c[1]][c[2]] => T[c[1]][c[2]] = T0[c[1]][c[2]]
    /\ Returned =>
         \A c \in Cells : fixed[c[1]][c[2]] => ret[1][c[1]][c[2]] = T0[c[1]][c[2]]

\* A fixed centreline cell that differs from its right neighbour after two
\* sweeps: the symmetry copy would have overwritten it.
C1_Witness ==
    /\ epochs >= 2
    /\ \E j \in Rows : fixed[j][0] /\ var[j][1] /\ T[j][0] # T[j][1]

C2_Safe ==
    /\ (pc = "sweep" /\ epochs >= 1) =>
          ~(max_change < cfg.delta \/ epochs >= cfg.max_iters)
    /\ pc = "done" =>
          /\ epochs >= 1
          /\ max_change < cfg.delta \/ epochs >= cfg.max_iters
          /\ epochs <= Max2(1, cfg.max_iters)
          /\ ret = <<T, epochs, max_change>>
    /\ Returned <=> pc = "done"

\* C2: the solver always returns; it returns at the least epoch e >= 1 with
\* max_change < delta or e >= max_iters (it loops on only while neither
\* holds), returns that epoch count and that sweep's max_change, and takes
\* no step after returning.
C2_ReturnsAtLeastEpoch ==
    /\ []C2_Safe
    /\ [][pc # "done"]_vars
    /\ <>(pc = "done")

\* A run that converged after looping at least once, before the cap.
C2_Witness ==
    /\ pc = "done"
    /\ epochs >= 2
    /\ epochs < cfg.max_iters
    /\ max_change < cfg.delta

\* C3: exactly one export is tagged final, it is written on return only, it
\* is the last export, it holds the Mirror of the returned Grid, and a
\* periodic export due at the terminal epoch is still written, just before.
C3_OneFinalExport ==
    /\ pc # "done" => Len(Finals) = 0
    /\ pc = "done" =>
         /\ Len(Finals) = 1
         /\ exports[Len(exports)].kind = "final"
         /\ IsMirrorOf(exports[Len(exports)].grid, ret[1])
         /\ epochs % cfg.snap_every = 0 =>
              /\ Len(exports) >= 2
              /\ exports[Len(exports) - 1].kind = "epoch"
              /\ exports[Len(exports) - 1].epoch = epochs

\* A run that converged, below the cap, at an epoch that is also a snapshot
\* epoch.
C3_Witness ==
    /\ pc = "done"
    /\ cfg.snap_every = 2
    /\ epochs = 2
    /\ epochs < cfg.max_iters
    /\ Len(exports) = 2

\* The number of epochs whose report (resp. snapshot) step has run.
ReportedUpTo == IF pc = "report" THEN epochs - 1 ELSE epochs
SnappedUpTo  == IF pc \in {"report", "snap"} THEN epochs - 1 ELSE epochs

\* The largest absolute change of a variable cell in sweep e of this run
\* (0 without variable cells), in units of 1/Scale.
ChangeOfSweep(e) ==
    LET before == GridAfter(e - 1)
        after  == GridAfter(e)
        d(c)   == Abs(after[c[1]][c[2]] - before[c[1]][c[2]])
        vs     == {c \in Cells : var[c[1]][c[2]]}
    IN  IF vs = {} THEN 0
        ELSE d(CHOOSE c \in vs : \A c2 \in vs : d(c2) <= d(c))

\* Twice the distance, in units of 1e-6 / Scale, between a printed number p
\* (millionths) and a change mc (1/Scale).
PrintGap2(p, mc) ==
    2 * Abs((p - (mc \div Scale) * Million) * Scale - (mc % Scale) * Million)

PrintsExactly(p, mc)     == PrintGap2(p, mc) = 0
PrintsSixDecimals(p, mc) == PrintGap2(p, mc) <= Scale

\* What C4 says, with Carries(p, mc) for "the report that printed p carries
\* the max_change mc".
C4_Logs(Carries(_, _)) ==
    /\ Len(Periodic) = SnappedUpTo \div cfg.snap_every
    /\ \A k \in 1..Len(Periodic) :
         /\ Periodic[k].epoch = k * cfg.snap_every
         /\ IsMirrorOf(Periodic[k].grid, GridAfter(k * cfg.snap_every))
    /\ Len(reports) = ReportedUpTo \div cfg.report_every
    /\ \A k \in 1..Len(reports) :
         /\ reports[k][1] = k * cfg.report_every
         /\ Carries(reports[k][2], ChangeOfSweep(k * cfg.report_every))

\* C4 as stated: periodic exports are written at exactly the multiples of
\* snap_every, in increasing order, each tagged with its epoch and holding
\* the Mirror of the Grid after that sweep; reports are written at exactly
\* the multiples of report_every, each carrying that sweep's max_change.
C4_ReportCarriesMaxChange == C4_Logs(PrintsExactly)

\* C4 amended: the same, except that the report carries that sweep's
\* max_change rounded to six decimals.
C4_Cadences == C4_Logs(PrintsSixDecimals)

\* A finished three-sweep run with different cadences whose grid moved.
C4_Witness ==
    /\ pc = "done"
    /\ epochs = 3
    /\ cfg.snap_every = 2
    /\ cfg.report_every = 1
    /\ Len(Periodic) = 1
    /\ Len(reports) = 3
    /\ ~PrintsExactly(reports[3][2], ChangeOfSweep(3))
    /\ GridAfter(2) # GridAfter(1)
    /\ GridAfter(2) # GridAfter(3)

\* C5 as stated: max_change >= 0, and max_change = 0 exactly when
\* VariableMask has no true cell.
C5_ZeroIffNoVariable ==
    epochs >= 1 => (max_change >= 0 /\ (max_change = 0 <=> ~AnyVar))

\* C5 amended: every sweep's max_change is >= 0; it is 0 when VariableMask
\* has no true cell, and in general exactly when the sweep changed no
\* variable cell.
C5_ZeroIffNothingMoved ==
    [][pc = "sweep" =>
         /\ max_change' >= 0
         /\ ~AnyVar => max_change' = 0
         /\ max_change' = 0 <=>
              \A c \in Cells : var[c[1]][c[2]] => T'[c[1]][c[2]] = T[c[1]][c[2]]
      ]_vars

\* A sweep over an empty VariableMask has run.
C5_Witness == epochs >= 1 /\ ~AnyVar /\ max_change = 0

\* Scenario B, on the grids it is meant for (N odd, so that the half domain
\* has an exact centreline).
ScenarioB ==
    /\ args.N % 2 = 1
    /\ args.T_bottom = 0
    /\ args.T_top = 100
    /\ args.L_inner = 0
    /\ args.bath_height = <<0>>

\* C6: with T_bottom = 0, T_top = 100, L_inner = 0 and bath_height = 0, the
\* Grid returned on convergence is within delta of 100 * y / L in every cell
\* (stated for odd N; the builder's one-cell inner square refutes it there).
C6_LinearProfile ==
    (ScenarioB /\ pc = "done" /\ max_change < cfg.delta) =>
        \A c \in Cells :
            Abs(ret[1][c[1]][c[2]] - (100 * Scale * c[1]) \div (Ny0 - 1))
                <= cfg.delta

\* What C7 says of one half grid G and its mirror.
MirrorOk(G) ==
    LET Nx == Cardinality(DOMAIN G[0])
        W  == 2 * Nx - 1
        m  == mirror_full_from_half(G)
    IN  /\ W % 2 = 1
        /\ DOMAIN m = DOMAIN G
        /\ \A j \in DOMAIN G :
             /\ DOMAIN m[j] = 0..(W - 1)
             /\ \A i \in 0..(W - 1) : m[j][i] = m[j][W - 1 - i]
             /\ \A i \in 0..(Nx - 1) : m[j][Nx - 1 + i] = G[j][i]

\* C7: the Mirror of an Ny x Nx_half grid has Ny rows of 2 * Nx_half - 1
\* cells, is symmetric about its centre column, and its right part is the
\* input (also for a single-column grid); every grid handed to the exporter
\* has that shape and symmetry.
C7_MirrorSymmetric ==
    /\ MirrorOk(T)
    /\ MirrorOk([j \in Rows |-> [i \in {0} |-> T[j][Nx0 - 1]]])
    /\ \A k \in 1..Len(exports) :
         LET full == exports[k].grid
             W == 2 * Nx0 - 1
         IN  /\ DOMAIN full = Rows
             /\ \A j \in Rows :
                  /\ DOMAIN full[j] = 0..(W - 1)
                  /\ \A i \in 0..(W - 1) : full[j][i] = full[j][W - 1 - i]

\* An exported grid of width 5 with a row that is not constant.
C7_Witness ==
    /\ Nx0 = 3
    /\ \E k \in 1..Len(exports) : \E j \in Rows :
         /\ exports[k].grid[j][2] # exports[k].grid[j][3]
         /\ exports[k].grid[j][3] # exports[k].grid[j][4]

Uniform ==
    /\ args.T_top = args.T_bottom
    /\ args.T_inner = args.T_bottom
    /\ args.init_guess = args.T_bottom

\* C8: when all boundary temperatures and the initial guess are equal and
\* delta > 0, the built Grid is uniform, the first sweep has max_change = 0
\* and the solver returns at epoch 1 with the Grid it was given.
C8_UniformStopsAtOnce ==
    (Uniform /\ cfg.delta > 0) =>
        /\ \A c \in Cells : T0[c[1]][c[2]] = args.T_bottom * Scale
        /\ epochs <= 1
        /\ epochs = 1 => (max_change = 0 /\ T = T0)
        /\ pc = "sweep" => epochs = 0
        /\ pc = "done" => ret = <<T0, 1, 0>>

\* Scenario A (N = 5, L = 1.0, all temperatures 50) has returned, on a grid
\* that has variable cells.
C8_Witness ==
    /\ args.N = 5 /\ args.L = 4
    /\ Uniform /\ args.T_bottom = 50
    /\ cfg.delta > 0
    /\ AnyVar
    /\ pc = "done"

\* C9: in every sweep each VariableMask cell becomes a quarter of the sum of
\* its four neighbours in the pre-sweep Grid.
C9_JacobiDecoupled ==
    [][pc = "sweep" =>
         \A c \in Cells : var[c[1]][c[2]] =>
            4 * T'[c[1]][c[2]] =
                T[c[1] - 1][c[2]] + T[c[1] + 1][c[2]]
              + T[c[1]][c[2] - 1] + T[c[1]][c[2] + 1]
      ]_vars

\* After two sweeps: two vertically adjacent variable cells that both moved,
\* next to a centreline cell that moved too.
C9_Witness ==
    /\ epochs = 2
    /\ \E j \in Rows :
         /\ j + 1 \in Rows
         /\ var[j][1] /\ var[j + 1][1]
         /\ T[j][1] # T0[j][1] /\ T[j + 1][1] # T0[j + 1][1]
         /\ T[j][0] # T0[j][0]

\* C10: after every sweep a centreline cell outside FixedMask equals the
\* column-1 cell of its row in the same Grid, and one inside FixedMask keeps
\* its fixed value.
C10_CentrelineCopy ==
    epochs >= 1 =>
        \A j \in Rows :
            /\ ~fixed[j][0] =>
                 /\ T[j][0] = T[j][1]
                 /\ Returned => ret[1][j][0] = ret[1][j][1]
            /\ fixed[j][0] =>
                 /\ T[j][0] = T0[j][0]
                 /\ Returned => ret[1][j][0] = T0[j][0]

\* A free centreline cell beside a variable cell that moved, in a grid that
\* also has a fixed centreline cell differing from its neighbour.
C10_Witness ==
    /\ epochs >= 1
    /\ \E j \in Rows : ~fixed[j][0] /\ var[j][1] /\ T[j][1] # T0[j][1]
    /\ \E j \in Rows : fixed[j][0] /\ var[j][1] /\ T[j][0] # T[j][1]

====
